---------------------------- MODULE Spec2Model ----------------------------
(***************************************************************************)
(* A model of anni-provider's streaming read-through cache                 *)
(* (anni-provider/src/cache.rs): CachePool::fetch / remove, the background *)
(* copier task, Drop for CacheItem and CacheItemReader::poll_read.         *)
(*                                                                         *)
(* Every access to the shared structures (the LruCache behind the          *)
(* parking_lot RwLock, the DashMap, the item's RwLock'd scalars, the       *)
(* files of the cache root) is one step; the steps of the concurrent       *)
(* fetches, the invalidator, the copiers and the readers interleave        *)
(* freely, as on the multi-threaded tokio runtime of annil.                *)
(*                                                                         *)
(* The file system is the Unix one: a directory maps a file name (the key) *)
(* to an inode, File::create truncates the inode the name already has,     *)
(* remove_file unlinks the name and open handles keep their inode.         *)
(***************************************************************************)
EXTENDS Integers, Sequences, FiniteSets, TLC

\* ------------------------------------------------------------------ bounds
NumKeys    == 2   \* keys the clients ask for
NumClients == 2   \* concurrent callers of fetch
MaxFetches == 3   \* fetch calls in one run (each has a serial number)
MaxRemoves == 1   \* invalidate calls in one run
MaxFaults  == 1   \* injected failures in one run (upstream, create, copy)
MaxData    == 2   \* length of the longest upstream byte stream
MaxPasses  == 2   \* calls of albums, get_audio_info, get_cover, reload

Keys    == 1..NumKeys
Clients == 1..NumClients
Serials == 1..MaxFetches     \* a fetch's serial names its mutex, item, inode
Invalidator == 0             \* the caller of Cache::invalidate
NoEnd   == -1                \* Range.end == None

\* usize::MAX, what CachePool::new stores for max_size == 0.  TLC's integers
\* are 32 bits wide; every size of the model is far below this value.
USIZE_MAX == 2147483647

VARIABLES
  max_size,    \* the argument of CachePool::new
  lim,         \* the run's bounds, see Bounds
  task,        \* [Clients -> the fetch (and then the reader) of that client]
  last_used,   \* the LruCache: a sequence of [k, m], least recently used first
  lockOwner,   \* who holds last_used's write guard across statements (0: nobody)
  locked,      \* the tokio Mutexes (by serial) whose owned guard is alive
  cache,       \* the DashMap: key -> item (0: no entry)
  items,       \* the CacheItems ever built, by serial
  copier,      \* the spawned copier task of each item
  dir,         \* the cache root: file name (key) -> inode (0: no such file)
  content,     \* inode -> the bytes of the file
  inval,       \* the invalidator's call of remove: [pc, key]
  used,        \* calls and failures so far: [fetch, remove, fault]
  upstream,    \* key -> upstream get_audio calls awaited so far
  touched,     \* the keys of last_used, by their last put or get
  returned,    \* key -> the item of the last fetch that returned Ok since the
               \*        key's last invalidation (0: none)
  aborted,     \* key -> the item the last remove took out while its copier
               \*        ran, until the key's next fetch is called (0: none)
  inner        \* the Cache in front of the pool: its calls of the inner
               \* provider and the keys it gave the pool, see NoCalls

\* the pool, its files and its callers
pool == <<max_size, lim, task, last_used, lockOwner, locked, cache, items,
          copier, dir, content, inval, used, upstream, touched, returned,
          aborted>>

vars == <<pool, inner>>

\* ------------------------------------------------------------- the upstream
\* The upstream stream of key k has DataLen(k) bytes, the same at every call:
\* byte j is j.  0 is the byte of a hole in a file.
DataLen(k) == IF k = 1 THEN MaxData ELSE 1
Data(k) == [j \in 1..DataLen(k) |-> j]

\* The bounds of a run:
\*   keys    the keys fetched            rkeys   the keys invalidated
\*   fetch   fetch calls                 remove  invalidate calls
\*   fault   failures injected (upstream, File::create, copy)
\*   wrong   whether the provider may declare a size one too large
\*   ranged  whether clients ask for the bounded range, too
Bounds(ks, rks, nf, nr, nx, w, b) ==
  [keys |-> ks, rkeys |-> rks, fetch |-> nf, remove |-> nr, fault |-> nx,
   wrong |-> w, ranged |-> b]

\* AudioInfo.size as the provider declares it
DeclaredSizes(k) ==
  {DataLen(k)} \cup (IF lim.wrong THEN {DataLen(k) + 1} ELSE {})

\* the ranges a client asks for: FULL and, of key 1, the stream's first byte
\* and its tail
FULL   == [start |-> 0, end |-> NoEnd]
Ranges(k) ==
  {FULL} \cup (IF lim.ranged /\ k = 1
               THEN {[start |-> 0, end |-> 1], [start |-> 1, end |-> DataLen(k)]}
               ELSE {})

\* ------------------------------------------------------------------- values
\* A client's fetch: pc is the statement it is at, f the call's serial, item
\* the Arc it holds, wait the mutex it waits or waited for (a hit that found
\* no item: 165-169), ino its open File, filled
\* the reader's offset and out the bytes the reader has yielded.  What is
\* recorded of the call:
\*   path      the branch of fetch taken
\*   victim    the key popped at 140
\*   victimLru whether every other key of last_used was touched after it
\*   admitOver whether, right after the insert (147), the sizes exceeded
\*             max_size while another key was registered
\*   prior     returned[key] when fetch was called
\*   after     aborted[key] when fetch was called, if remove had returned
\*   whole     the key's item when fetch was called with FULL, if its copier
\*             had finished with Ok
IdleTask == [pc |-> "idle", key |-> 0, range |-> FULL, f |-> 0, path |-> "none",
             item |-> 0, wait |-> 0, ino |-> 0, filled |-> 0, out |-> <<>>,
             victim |-> 0, victimLru |-> FALSE, admitOver |-> FALSE,
             prior |-> 0, after |-> 0, whole |-> 0]
\* removed: remove() took the item out of the DashMap (182)
NoItem   == [st |-> "none", key |-> 0, size |-> 0, cached |-> FALSE,
             removed |-> FALSE]
NoCopier == [st |-> "none", ino |-> 0, pos |-> 0]

\* the pcs at which a client is not inside fetch and holds no reader: before
\* its first call, after an Err of `?` at 125 or 129 ("failed"), after an Err
\* of File::open at 177 ("unopened"), after a panic
Rest == {"idle", "failed", "unopened", "panicked"}

\* the pcs at which fetch has returned Ok and the client holds the reader
Streaming == {"reading", "eof"}

\* the task of a fetch that ended with pc (an Err returned, a panic): its
\* locals are dropped
Ended(t, pc) ==
  [IdleTask EXCEPT !.pc = pc, !.key = t.key, !.path = t.path,
                   !.prior = t.prior, !.after = t.after, !.whole = t.whole]

\* ------------------------------------------------------------ LruCache ops
RECURSIVE Without(_, _)
Without(s, k) ==
  IF s = <<>> THEN <<>>
  ELSE IF Head(s).k = k THEN Without(Tail(s), k)
  ELSE <<Head(s)>> \o Without(Tail(s), k)

LruKeys(s) == {s[i].k : i \in 1..Len(s)}
Entry(s, k) == CHOOSE e \in {s[i] : i \in 1..Len(s)} : e.k = k

\* LruCache::contains
contains(s, k) == k \in LruKeys(s)
\* LruCache::put: insert or replace the value, and make the key most recent
put(s, k, m) == Append(Without(s, k), [k |-> k, m |-> m])
\* a get that leaves the order as it is (LruCache::peek)
peek(s, k) == s
\* LruCache::get: make the key most recent (the caller has checked contains)
get(s, k) == Append(Without(s, k), Entry(s, k))
\* a pop that takes the oldest entry out when the key has none
pop_some(s, k) ==
  IF \E i \in 1..Len(s) : s[i].k = k THEN Without(s, k)
  ELSE IF s = <<>> THEN s ELSE Tail(s)
\* LruCache::pop: remove the key if it is there
pop(s, k) == Without(s, k)
\* LruCache::pop_lru on a non-empty cache: the least recently used entry
pop_lru(s) == Head(s)

\* --------------------------------------------------------------- CachePool
\* a limit taken as it is given: 0 is a pool that holds nothing
PoolRaw == max_size

\* CachePool::new: 0 means unlimited
PoolMax == IF max_size = 0 THEN USIZE_MAX ELSE max_size

\* CachePool::has_cache
has_cache(k) == contains(last_used, k)

RECURSIVE SumSizes(_, _, _)
SumSizes(c, it, ks) ==
  IF ks = {} THEN 0
  ELSE LET k == CHOOSE x \in ks : TRUE
       IN (IF c[k] = 0 THEN 0 ELSE it[c[k]].size) + SumSizes(c, it, ks \ {k})

\* CachePool::space_used: the sum of size() over the DashMap's entries
space_used == SumSizes(cache, items, Keys)

\* ------------------------------------------------------------- Arc and Drop
\* An item is alive while an Arc of it exists: the DashMap's entry, a fetch's
\* local `item` (later the reader's), or the copier's item_spawn.
Live(i) ==
  \/ \E k \in Keys : cache[k] = i
  \/ \E c \in Clients : task[c].item = i
  \/ copier[i].st \in {"copying", "sized"}

\* the items whose last Arc this step releases
Dropped == {i \in Serials : Live(i) /\ ~Live(i)'}

\* a Drop that removes the file whatever cached() is
DropAlways(d, it) ==
  [k \in Keys |-> IF \E i \in Dropped : it[i].key = k THEN 0 ELSE d[k]]

\* Drop for CacheItem (294-305): a dropped item removes the file at its path
\* unless cached() is true then.  `it` is the items as the step's own writes
\* leave them.
AfterDrops(d, it) ==
  [k \in Keys |->
     IF \E i \in Dropped : it[i].key = k /\ ~it[i].cached THEN 0 ELSE d[k]]

\* what is kept of a dropped item: its key, whether remove() took it out and
\* what cached() was when Drop ran
Gone(r) ==
  [NoItem EXCEPT !.st = "dropped", !.key = r.key, !.removed = r.removed,
                 !.cached = r.cached]

\* An inode with a name or an open handle (a reader's, a fetch's or a
\* copier's File) keeps its bytes; the file system frees any other.
Referenced(n) ==
  \/ \E k \in Keys : dir[k] = n
  \/ \E c \in Clients : task[c].ino = n
  \/ \E i \in Serials : copier[i].ino = n
Reclaimed(ct) == [n \in Serials |-> IF Referenced(n)' THEN ct[n] ELSE <<>>]

\* the items and files after a step that may release an Arc or close a File
Released(it) ==
  /\ items' = [i \in Serials |-> IF i \in Dropped THEN Gone(it[i]) ELSE it[i]]
  /\ dir' = AfterDrops(dir, it)
  /\ content' = Reclaimed(content)

\* ------------------------------------------------------ the Cache's calls
\* the operations Cache hands to the inner provider as they are
Ops == {"albums", "get_audio_info", "get_cover", "reload"}

\* what the inner provider answers: a value or a ProviderError
Outcomes == {[ok |-> TRUE, v |-> 1], [ok |-> TRUE, v |-> 2], [ok |-> FALSE, v |-> 1]}
NoOutcome == [ok |-> FALSE, v |-> 0]

\* the tracks the clients name: (album_id, disc_id, track_id)
Tracks == {[album |-> "A", disc |-> 1, track |-> t] : t \in Keys}

NoRange == [start |-> NoEnd, end |-> NoEnd]

\* What is recorded of the Cache's calls:
\*   pc            the operation awaited of the inner provider, or "idle"
\*   made, calls   per operation, the calls of Cache and those of the inner
\*                 provider
\*   gave, got     the inner provider's last answer and what Cache returned
\*   asked         track -> the key get_audio gave to fetch (0: none yet)
\*   dropped       track -> the key invalidate gave to remove (0: none yet)
\*   want          the range of the last inner.get_audio call built (69)
NoCalls ==
  [pc |-> "idle", made |-> [o \in Ops |-> 0], calls |-> [o \in Ops |-> 0],
   gave |-> NoOutcome, got |-> NoOutcome,
   asked |-> [t \in Tracks |-> 0], dropped |-> [t \in Tracks |-> 0],
   want |-> NoRange]

\* ------------------------------------------------------------------- Init
\* the state after CachePool::new(root, m), for a run within the bounds b
Start(m, b) ==
  /\ max_size = m
  /\ lim = b
  /\ task = [c \in Clients |-> IdleTask]
  /\ last_used = <<>>
  /\ lockOwner = 0
  /\ locked = {}
  /\ cache = [k \in Keys |-> 0]
  /\ items = [i \in Serials |-> NoItem]
  /\ copier = [i \in Serials |-> NoCopier]
  /\ dir = [k \in Keys |-> 0]
  /\ content = [i \in Serials |-> <<>>]
  /\ inval = [pc |-> "idle", key |-> 0]
  /\ used = [fetch |-> 0, remove |-> 0, fault |-> 0]
  /\ upstream = [k \in Keys |-> 0]
  /\ touched = <<>>
  /\ returned = [k \in Keys |-> 0]
  /\ aborted = [k \in Keys |-> 0]
  /\ inner = NoCalls

\* ------------------------------------------------------------ small helpers
Min(a, b) == IF a < b THEN a ELSE b

\* a put or get of key k in last_used happened now
Touched(k) == touched' = Append(SelectSeq(touched, LAMBDA x : x # k), k)

\* key k left last_used (pop, pop_lru)
Forgotten(k) == touched' = SelectSeq(touched, LAMBDA x : x # k)

\* key a was last touched before key b
Before(a, b) ==
  \E i, j \in 1..Len(touched) : i < j /\ touched[i] = a /\ touched[j] = b

\* the write of byte b at offset pos of a file (a hole is filled with 0)
WriteAt(s, pos, b) ==
  IF pos < Len(s) THEN [s EXCEPT ![pos + 1] = b]
  ELSE s \o [j \in 1..(pos - Len(s)) |-> 0] \o <<b>>

\* self.cache.remove(key).map(|r| r.1.set_cached(false)): the DashMap and the
\* items after it
CacheWithout(k) == [cache EXCEPT ![k] = 0]
ItemsUncached(k) ==
  IF cache[k] = 0 THEN items
  ELSE [items EXCEPT ![cache[k]].cached = FALSE, ![cache[k]].removed = TRUE]

\* returned and aborted are read when fetch is called: they are kept while
\* a call can still come, and the last call clears them
Nothing == [k \in Keys |-> 0]
Noted(h) == IF used.fetch < lim.fetch THEN h ELSE Nothing
Kept(h) == IF used.fetch + 1 < lim.fetch THEN h ELSE Nothing

\* remove(k) runs: what the calls for k recorded of the time before it is
\* void (a reader that was returned keeps its `whole`)
Voided(k) ==
  [c \in Clients |->
     IF task[c].key # k THEN task[c]
     ELSE [task[c] EXCEPT !.prior = 0,
                          !.whole = IF task[c].pc \in Streaming THEN @ ELSE 0]]

\* one more failure may be injected
MayFail == used.fault < lim.fault
Fault == used' = [used EXCEPT !.fault = @ + 1]

\* --------------------------------------------------- fetch, the entry (118)
\* fetch(key, range, on_miss) is called and evaluates has_cache(&key), which
\* takes the read lock of last_used.  Idle clients are alike: the first calls.
fetch(c, k, r) ==
  /\ task[c].pc \in Rest
  /\ \A d \in Clients : d < c => task[d].pc # "idle"
  /\ k \in lim.keys
  /\ used.fetch < lim.fetch
  /\ lockOwner = 0
  /\ used' = [used EXCEPT !.fetch = @ + 1]
  /\ task' = [task EXCEPT ![c] =
       [IdleTask EXCEPT !.key = k, !.range = r, !.f = used.fetch + 1,
                        !.pc = IF has_cache(k) THEN "contains_key" ELSE "put",
                        !.path = IF has_cache(k) THEN "hit" ELSE "miss",
                        !.prior = returned[k],
                        !.after = IF inval.pc = "idle" THEN aborted[k] ELSE 0,
                        !.whole = IF r = FULL /\ cache[k] # 0 /\ items[cache[k]].cached
                                  THEN cache[k] ELSE 0]]
  /\ aborted' = Kept([aborted EXCEPT ![k] = 0])
  /\ returned' = Kept(returned)
  /\ UNCHANGED <<max_size, lim, last_used, lockOwner, locked, cache, items,
                 copier, dir, content, inval, upstream, touched>>

\* Cache::get_audio, by the key its arguments hash to
Fetch(c, k, r) == fetch(c, k, r) /\ UNCHANGED inner

\* ------------------------------------------------ fetch, the miss (119-160)
\* 120-125: a new locked mutex is put under the key; on_miss is now awaited
MissPut(c) ==
  /\ task[c].pc = "put"
  /\ lockOwner = 0
  /\ last_used' = put(last_used, task[c].key, task[c].f)
  /\ locked' = locked \cup {task[c].f}
  /\ Touched(task[c].key)
  /\ upstream' = [upstream EXCEPT ![task[c].key] = @ + 1]
  /\ task' = [task EXCEPT ![c].pc = "on_miss"]
  /\ UNCHANGED <<max_size, lim, inner, lockOwner, cache, items, copier, dir, content,
                 inval, used, returned, aborted>>

\* 125: on_miss.await is Ok
OnMissOk(c) ==
  /\ task[c].pc = "on_miss"
  /\ task' = [task EXCEPT ![c].pc = "create"]
  /\ UNCHANGED <<max_size, lim, inner, last_used, lockOwner, locked, cache, items,
                 copier, dir, content, inval, used, upstream, returned, aborted, touched>>

\* what `?` does at 125 and 129: the Err is returned and `handle` dropped
ReturnErr(c) ==
  /\ locked' = locked \ {task[c].f}
  /\ task' = [task EXCEPT ![c] = Ended(@, "failed")]
  /\ UNCHANGED last_used

\* 125: on_miss.await is Err
OnMissErr(c) ==
  /\ task[c].pc = "on_miss"
  /\ MayFail /\ Fault
  /\ ReturnErr(c)
  /\ UNCHANGED <<max_size, lim, inner, lockOwner, cache, items, copier,
                 dir, content, inval, upstream, returned, aborted, touched>>

\* 128-134: File::create(root/key) makes or truncates the file; the item is
\* built with the declared size s of the upstream's AudioInfo, cached = false
CreateOk(c, s) ==
  /\ task[c].pc = "create"
  /\ LET k == task[c].key
         f == task[c].f
         ino == IF dir[k] = 0 THEN f ELSE dir[k]
     IN /\ dir' = [dir EXCEPT ![k] = ino]
        /\ content' = [content EXCEPT ![ino] = <<>>]
        /\ items' = [items EXCEPT ![f] =
             [NoItem EXCEPT !.st = "built", !.key = k, !.size = s]]
        /\ task' = [task EXCEPT ![c].pc = "space", ![c].item = f, ![c].ino = ino]
  /\ UNCHANGED <<max_size, lim, inner, last_used, lockOwner, locked, cache, copier,
                 inval, used, upstream, returned, aborted, touched>>

\* 129: File::create is Err
CreateErr(c) ==
  /\ task[c].pc = "create"
  /\ MayFail /\ Fault
  /\ ReturnErr(c)
  /\ UNCHANGED <<max_size, lim, inner, lockOwner, cache, items, copier,
                 dir, content, inval, upstream, returned, aborted, touched>>

\* 137: if self.space_used() > self.max_size
SpaceCheck(c) ==
  /\ task[c].pc = "space"
  /\ task' = [task EXCEPT ![c].pc =
                IF space_used > PoolMax THEN "pop_lru" ELSE "insert"]
  /\ UNCHANGED <<max_size, lim, inner, last_used, lockOwner, locked, cache, items,
                 copier, dir, content, inval, used, upstream, returned, aborted, touched>>

\* 139-140: let mut write = self.last_used.write(); write.pop_lru().unwrap().
\* The guard `write` lives to the end of the block (144).  On an empty
\* LruCache unwrap panics: the unwinding drops the guard, `item` (Drop for
\* CacheItem), `file` and `handle`.
PopLru(c) ==
  /\ task[c].pc = "pop_lru"
  /\ lockOwner = 0
  /\ IF last_used = <<>>
     THEN /\ task' = [task EXCEPT ![c] = Ended(@, "panicked")]
          /\ locked' = locked \ {task[c].f}
          /\ UNCHANGED <<last_used, lockOwner, touched>>
     ELSE /\ lockOwner' = c
          /\ last_used' = pop(last_used, pop_lru(last_used).k)
          /\ task' = [task EXCEPT
               ![c].pc = "rm_cache",
               ![c].victim = pop_lru(last_used).k,
               ![c].victimLru = \A x \in LruKeys(last_used) \ {pop_lru(last_used).k} :
                                   Before(pop_lru(last_used).k, x)]
          /\ Forgotten(pop_lru(last_used).k)
          /\ UNCHANGED locked
  /\ UNCHANGED <<max_size, lim, inner, cache, copier, inval, used, upstream, returned, aborted>>
  /\ Released(items)

\* 143 -> 182: remove(&victim), its first statement
EvictCache(c) ==
  /\ task[c].pc = "rm_cache"
  /\ cache' = CacheWithout(task[c].victim)
  /\ task' = [task EXCEPT ![c].pc = "rm_lru"]
  /\ UNCHANGED <<max_size, lim, inner, last_used, lockOwner, locked, copier, inval,
                 used, upstream, returned, aborted, touched>>
  /\ Released(ItemsUncached(task[c].victim))

\* 147: self.cache.insert(key, item); an entry it replaces is dropped
Insert(c) ==
  /\ task[c].pc = "insert"
  /\ cache' = [cache EXCEPT ![task[c].key] = task[c].f]
  /\ task' = [task EXCEPT
       ![c].pc = "release",
       ![c].admitOver = /\ SumSizes(cache', items, Keys) > PoolMax
                        /\ \E k \in Keys \ {task[c].key} : cache[k] # 0]
  /\ UNCHANGED <<max_size, lim, inner, last_used, lockOwner, locked, copier,
                 inval, used, upstream, returned, aborted, touched>>
  /\ Released(items)

\* 149-160: drop(handle) releases the mutex; the copier is spawned with the
\* upstream reader and the created file
Release(c) ==
  /\ task[c].pc = "release"
  /\ locked' = locked \ {task[c].f}
  /\ copier' = [copier EXCEPT ![task[c].f] =
                  [st |-> "copying", ino |-> task[c].ino, pos |-> 0]]
  /\ task' = [task EXCEPT ![c].pc = "open", ![c].ino = 0]
  /\ UNCHANGED <<max_size, lim, inner, last_used, lockOwner, cache, items, dir,
                 content, inval, used, upstream, returned, aborted, touched>>

\* ------------------------------------------------- fetch, the hit (161-174)
\* 163: if !self.cache.contains_key(&key)
ContainsKey(c) ==
  /\ task[c].pc = "contains_key"
  /\ task' = [task EXCEPT ![c].pc =
                IF cache[task[c].key] = 0 THEN "barrier" ELSE "touch"]
  /\ UNCHANGED <<max_size, lim, inner, last_used, lockOwner, locked, cache, items,
                 copier, dir, content, inval, used, upstream, returned, aborted, touched>>

\* self.last_used.write().get(&key).unwrap() (167, 172): get makes the key
\* most recent; unwrap panics on a missing key.  pc: where fetch goes on.
GetUnwrap(c, pc) ==
  IF has_cache(task[c].key)
  THEN /\ last_used' = get(last_used, task[c].key)
       /\ Touched(task[c].key)
       /\ task' = [task EXCEPT ![c].pc = pc,
                               ![c].wait = IF pc = "lock"
                                           THEN Entry(last_used, task[c].key).m
                                           ELSE @]
  ELSE /\ task' = [task EXCEPT ![c] = Ended(@, "panicked")]
       /\ UNCHANGED <<last_used, touched>>

\* 165-168: the key's mutex is looked up and cloned
Barrier(c) ==
  /\ task[c].pc = "barrier"
  /\ lockOwner = 0
  /\ GetUnwrap(c, "lock")
  /\ UNCHANGED <<max_size, lim, inner, lockOwner, locked, cache, items, copier,
                 dir, content, inval, used, upstream, returned, aborted>>

\* 169: let _ = mutex.lock().await: acquired once the inserter's guard is
\* dropped, and released at once
Lock(c) ==
  /\ task[c].pc = "lock"
  /\ task[c].wait \notin locked
  /\ task' = [task EXCEPT ![c].pc = "touch"]
  /\ UNCHANGED <<max_size, lim, inner, last_used, lockOwner, locked, cache, items,
                 copier, dir, content, inval, used, upstream, returned, aborted, touched>>

\* 172: update last_used time
Touch(c) ==
  /\ task[c].pc = "touch"
  /\ lockOwner = 0
  /\ GetUnwrap(c, "get")
  /\ UNCHANGED <<max_size, lim, inner, lockOwner, locked, cache, items, copier,
                 dir, content, inval, used, upstream, returned, aborted>>

\* 173: self.cache.get(&key).unwrap().clone()
Get(c) ==
  /\ task[c].pc = "get"
  /\ task' = [task EXCEPT ![c] =
       IF cache[task[c].key] = 0 THEN Ended(@, "panicked")
       ELSE [@ EXCEPT !.pc = "open", !.item = cache[task[c].key]]]
  /\ UNCHANGED <<max_size, lim, inner, last_used, lockOwner, locked, cache, items,
                 copier, dir, content, inval, used, upstream, returned, aborted, touched>>

\* ------------------------------------------- fetch, the reader (176-178)
\* fetch returns Ok(reader) to client c
ReturnsOk(c) ==
  returned' = Noted([returned EXCEPT ![task[c].key] = task[c].item])

\* 177: File::open(&item.path): Err (`?` returns it, dropping `item`) when no
\* file has the name; else to_reader (261-268) with filled = 0.  With
\* range.start > 0 fetch goes on to skip (272-275) before it returns.
Open(c) ==
  /\ task[c].pc = "open"
  /\ IF dir[task[c].key] = 0
     THEN /\ task' = [task EXCEPT ![c] = Ended(@, "unopened")]
          /\ UNCHANGED returned
     ELSE /\ task' = [task EXCEPT
               ![c].pc = IF task[c].range.start > 0 THEN "skip" ELSE "reading",
               ![c].ino = dir[task[c].key]]
          /\ IF task[c].range.start > 0 THEN UNCHANGED returned
             ELSE ReturnsOk(c)
  /\ UNCHANGED <<max_size, lim, inner, last_used, lockOwner, locked, cache, copier,
                 inval, used, upstream, aborted, touched>>
  /\ Released(items)

\* ------------------------------------------ CacheItemReader::poll_read
\* Range::length(): end - start when end is set
RangeLength(r) == r.end - r.start

\* a poll that takes the file's present end for EOF, cached or not
poll_eager(c, n) ==
  LET avail == Len(content[task[c].ino]) - task[c].filled
  IN IF avail > 0 THEN [kind |-> "data", n |-> Min(avail, n)]
     ELSE [kind |-> "eof", n |-> 0]

\* a poll that takes a cached item's file end for EOF without comparing
\* filled with size()
poll_cached(c, n) ==
  LET avail == Len(content[task[c].ino]) - task[c].filled
  IN IF avail > 0 THEN [kind |-> "data", n |-> Min(avail, n)]
     ELSE IF items[task[c].item].cached THEN [kind |-> "eof", n |-> 0]
          ELSE [kind |-> "timer", n |-> 0]

\* One poll of client c's CacheItemReader into a buffer of lim bytes, once a
\* pending timer has fired (322-332).  The file read (337) returns the bytes
\* from offset `filled` to the file's present end, at most lim of them:
\*   data  : n >= 1 bytes read, filled += n, Ready (343-345); the buffer is
\*           large, so the read takes all there is
\*   wake  : 0 bytes, cached, filled != size: Pending, woken at once (347-351)
\*   eof   : 0 bytes, cached, filled == size: Ready with nothing (352-355)
\*   timer : 0 bytes, not cached: the 100 ms timer is armed, Pending (356-364)
poll_read(c, n) ==
  LET t == task[c]
      avail == Len(content[t.ino]) - t.filled
  IN IF avail > 0 THEN [kind |-> "data", n |-> Min(avail, n)]
     ELSE IF items[t.item].cached
          THEN IF t.filled # items[t.item].size
               THEN [kind |-> "wake", n |-> 0]
               ELSE [kind |-> "eof", n |-> 0]
          ELSE [kind |-> "timer", n |-> 0]

\* the bytes of c's file from offset filled, n of them
FileBytes(c, n) ==
  SubSeq(content[task[c].ino], task[c].filled + 1, task[c].filled + n)

\* where the reader stands once `sofar` bytes of range r were delivered:
\* reader.take(length) (278) is at its end after length bytes
TakePc(r, sofar) ==
  IF r.end # NoEnd /\ sofar >= RangeLength(r) THEN "eof" ELSE "reading"

\* 272-275: tokio::io::copy(&mut reader.take(range.start), &mut sink()),
\* inside fetch: it ends when range.start bytes were discarded or the reader
\* signals EOF; then fetch returns the reader
Skip(c) ==
  /\ task[c].pc = "skip"
  /\ LET o == poll_read(c, task[c].range.start - task[c].filled)
     IN /\ o.kind \in {"data", "eof"}
        /\ task' = [task EXCEPT
             ![c].filled = @ + o.n,
             ![c].pc = IF o.kind = "eof" \/ task[c].filled + o.n = task[c].range.start
                       THEN TakePc(task[c].range, 0) ELSE "skip"]
        /\ IF o.kind = "eof" \/ task[c].filled + o.n = task[c].range.start
           THEN ReturnsOk(c) ELSE UNCHANGED returned
  /\ UNCHANGED <<max_size, lim, inner, last_used, lockOwner, locked, cache, items,
                 copier, dir, content, inval, used, upstream, aborted, touched>>

\* the client polls the reader fetch returned; `out` is what it was given
Read(c) ==
  /\ task[c].pc = "reading"
  /\ LET o == poll_read(c, IF task[c].range.end = NoEnd THEN MaxData + 1
                           ELSE RangeLength(task[c].range) - Len(task[c].out))
     IN /\ o.kind \in {"data", "eof"}
        /\ task' = [task EXCEPT
             ![c].filled = @ + o.n,
             ![c].out = @ \o FileBytes(c, o.n),
             ![c].pc = IF o.kind = "eof" THEN "eof"
                       ELSE TakePc(task[c].range, Len(task[c].out) + o.n)]
  /\ UNCHANGED <<max_size, lim, inner, last_used, lockOwner, locked, cache, items,
                 copier, dir, content, inval, used, upstream, returned, aborted, touched>>

\* the client drops the reader (and with it an Arc of the item)
DropReader(c) ==
  /\ task[c].pc \in Streaming
  /\ task' = [task EXCEPT ![c] = IdleTask]
  /\ UNCHANGED <<max_size, lim, inner, last_used, lockOwner, locked, cache, copier,
                 inval, used, upstream, returned, aborted, touched>>
  /\ Released(items)

\* -------------------------------------------------- the copier (153-159)
\* 154: tokio::io::copy(&mut reader, &mut file) writes the next upstream byte
\* at the offset of the copier's own file handle
CopierWrite(i) ==
  /\ copier[i].st = "copying"
  /\ copier[i].pos < DataLen(items[i].key)
  /\ content' = [content EXCEPT ![copier[i].ino] =
                   WriteAt(@, copier[i].pos, Data(items[i].key)[copier[i].pos + 1])]
  /\ copier' = [copier EXCEPT ![i].pos = @ + 1]
  /\ UNCHANGED <<max_size, lim, inner, task, last_used, lockOwner, locked, cache,
                 items, dir, inval, used, upstream, returned, aborted, touched>>

\* copy has returned Ok(actual_size)
Copied(i) == copier[i].st = "copying" /\ copier[i].pos = DataLen(items[i].key)

\* 155-157: if item_spawn.size() != actual_size { set_size(actual_size) }
CopierSize(i) ==
  /\ Copied(i)
  /\ items[i].size # copier[i].pos
  /\ items' = [items EXCEPT ![i].size = copier[i].pos]
  /\ copier' = [copier EXCEPT ![i].st = "sized"]
  /\ UNCHANGED <<max_size, lim, inner, task, last_used, lockOwner, locked, cache,
                 dir, content, inval, used, upstream, returned, aborted, touched>>

\* a copier that sets cached as soon as the copy has returned, whatever size()
CopierCachedEarly(i) ==
  /\ copier[i].st = "sized" \/ Copied(i)
  /\ copier' = [copier EXCEPT ![i] = [NoCopier EXCEPT !.st = "done"]]
  /\ UNCHANGED <<max_size, lim, inner, task, last_used, lockOwner, locked, cache,
                 inval, used, upstream, returned, aborted, touched>>
  /\ Released([items EXCEPT ![i].cached = TRUE])

\* 158-159: set_cached(true); the task ends, dropping item_spawn and file
CopierCached(i) ==
  /\ \/ copier[i].st = "sized"
     \/ Copied(i) /\ items[i].size = copier[i].pos
  /\ copier' = [copier EXCEPT ![i] = [NoCopier EXCEPT !.st = "done"]]
  /\ UNCHANGED <<max_size, lim, inner, task, last_used, lockOwner, locked, cache,
                 inval, used, upstream, returned, aborted, touched>>
  /\ Released([items EXCEPT ![i].cached = TRUE])

\* 154: copy is Err: unwrap panics, the task ends and drops item_spawn
CopierFail(i) ==
  /\ copier[i].st = "copying"
  /\ MayFail /\ Fault
  /\ copier' = [copier EXCEPT ![i] = [NoCopier EXCEPT !.st = "failed"]]
  /\ UNCHANGED <<max_size, lim, inner, task, last_used, lockOwner, locked, cache,
                 inval, upstream, returned, aborted, touched>>
  /\ Released(items)

\* ------------------------------------------- invalidate / remove (29-34, 181-184)
\* remove(key), called by Cache::invalidate; 182: the DashMap's entry is
\* removed and its item set_cached(false), then dropped
remove(k) ==
  /\ inval.pc = "idle"
  /\ k \in lim.rkeys
  /\ used.remove < lim.remove
  /\ used' = [used EXCEPT !.remove = @ + 1]
  /\ inval' = [pc |-> "rm_lru", key |-> k]
  /\ cache' = CacheWithout(k)
  /\ returned' = [returned EXCEPT ![k] = 0]
  /\ aborted' = Noted([aborted EXCEPT ![k] =
       IF cache[k] # 0 /\ copier[cache[k]].st \in {"copying", "sized"}
       THEN cache[k] ELSE 0])
  /\ task' = Voided(k)
  /\ UNCHANGED <<max_size, lim, last_used, lockOwner, locked, copier,
                 upstream, touched>>
  /\ Released(ItemsUncached(k))

\* Cache::invalidate, by the key its arguments hash to
Invalidate(k) == remove(k) /\ UNCHANGED inner

\* 183: self.last_used.write().pop(key), by the invalidator (p = 0) or by the
\* fetch that evicts (remove called at 143).  write() waits for the write
\* guard to be free; the evicting fetch still holds its own guard of 139.
\* When remove returns to fetch, the block ends (144) and drops that guard.
RemoveLru(p) ==
  /\ lockOwner = 0
  /\ IF p = Invalidator
     THEN /\ inval.pc = "rm_lru"
          /\ last_used' = pop(last_used, inval.key)
          /\ Forgotten(inval.key)
          /\ inval' = [pc |-> "idle", key |-> 0]
          /\ returned' = [returned EXCEPT ![inval.key] = 0]
          /\ task' = Voided(inval.key)
          /\ UNCHANGED lockOwner
     ELSE /\ task[p].pc = "rm_lru"
          /\ last_used' = pop(last_used, task[p].victim)
          /\ Forgotten(task[p].victim)
          /\ task' = [task EXCEPT ![p].pc = "insert"]
          /\ lockOwner' = 0
          /\ UNCHANGED <<inval, returned>>
  /\ UNCHANGED <<max_size, lim, inner, locked, cache, items, copier, dir, content,
                 used, upstream, aborted>>

\* ----------------------------------------------------- impl Cache (24-88)
\* the decimal digits of n, and n as {:02} prints it
Digits == <<"0", "1", "2", "3", "4", "5", "6", "7", "8", "9">>
RECURSIVE Dec(_)
Dec(n) == IF n < 10 THEN <<Digits[n + 1]>>
          ELSE Dec(n \div 10) \o <<Digits[(n % 10) + 1]>>
Pad2(n) == IF n < 10 THEN <<"0">> \o Dec(n) ELSE Dec(n)

\* format!("{}/{}/{}"): the numbers as they are
PlainName(t) == <<t.album, "/">> \o Dec(t.disc) \o <<"/">> \o Dec(t.track)
\* format!("{}/{:02}/{:02}", album_id, disc_id, track_id) of invalidate (30-33)
InvalidateName(t) == <<t.album, "/">> \o Pad2(t.disc) \o <<"/">> \o Pad2(t.track)
\* format!("{}/{:02}/{:02}", album_id, disc_id, track_id) of get_audio (63)
AudioName(t) == <<t.album, "/">> \o Pad2(t.disc) \o <<"/">> \o Pad2(t.track)

\* do_hash: the hex SHA-256 digest of the name.  The pool's key k stands for
\* the digest of Hashed[k]; the digest of any other name is some key, one
\* for each name.
Hashed == [k \in Keys |-> <<"A", "/", "0", "1", "/", "0", Digits[k + 1]>>]
do_hash(name) ==
  IF \E k \in Keys : Hashed[k] = name
  THEN CHOOSE k \in Keys : Hashed[k] = name
  ELSE (Len(name) % NumKeys) + 1

\* 69: the range of the inner get_audio call that is fetch's on_miss
UpstreamRange(r) == FULL

\* Cache::get_audio (54-73): fetch under the hashed name, with the inner
\* provider's get_audio(.., Range::FULL) as on_miss
get_audio(c, t, r) ==
  /\ fetch(c, do_hash(AudioName(t)), r)
  /\ inner' = [inner EXCEPT !.asked[t] = do_hash(AudioName(t)),
                            !.want = UpstreamRange(r)]

\* Cache::invalidate (29-34): remove under the hashed name
invalidate(t) ==
  /\ remove(do_hash(InvalidateName(t)))
  /\ inner' = [inner EXCEPT !.dropped[t] = do_hash(InvalidateName(t))]

\* albums, get_audio_info, get_cover, reload (39-52, 75-87): the inner
\* provider's operation is called and awaited, its answer is the result
Passes == inner.made["albums"] + inner.made["get_audio_info"]
          + inner.made["get_cover"] + inner.made["reload"]
\* a call that is made a second time
InvokedAgain(n) == n + 2
\* the inner provider's calls after one more call of Cache
Invoked(n) == n + 1
Forward(o) ==
  /\ inner.pc = "idle"
  /\ Passes < MaxPasses
  /\ inner' = [inner EXCEPT !.pc = o, !.made[o] = @ + 1,
                            !.calls[o] = Invoked(@),
                            !.gave = NoOutcome, !.got = NoOutcome]
  /\ UNCHANGED pool
Answer(a) ==
  /\ inner.pc \in Ops
  /\ inner' = [inner EXCEPT !.pc = "idle", !.gave = a, !.got = a]
  /\ UNCHANGED pool

\* ------------------------------------------------------------- the steps
\* fetch when nothing fails and nothing is full, and the drop of its reader
Enter == \E c \in Clients, k \in Keys : \E r \in Ranges(k) : Fetch(c, k, r)
Steps ==
  \/ \E c \in Clients : MissPut(c)
  \/ \E c \in Clients : OnMissOk(c)
  \/ \E c \in Clients : \E s \in DeclaredSizes(task[c].key) : CreateOk(c, s)
  \/ \E c \in Clients : SpaceCheck(c)
  \/ \E c \in Clients : Insert(c)
  \/ \E c \in Clients : Release(c)
  \/ \E c \in Clients : ContainsKey(c)
  \/ \E c \in Clients : Barrier(c)
  \/ \E c \in Clients : Lock(c)
  \/ \E c \in Clients : Touch(c)
  \/ \E c \in Clients : Get(c)
  \/ \E c \in Clients : Open(c)
  \/ \E c \in Clients : DropReader(c)
Calls == Enter \/ Steps

\* the copier when nothing fails
Copies ==
  \/ \E i \in Serials : CopierWrite(i)
  \/ \E i \in Serials : CopierCached(i)

\* the clients' polls of their readers
Polls == \E c \in Clients : Read(c)

\* fetch, its reader and the copier
Serve == Calls \/ Copies \/ Polls

\* the eviction of fetch (137-144)
Evict ==
  \/ \E c \in Clients : PopLru(c)
  \/ \E c \in Clients : EvictCache(c)

\* Cache::invalidate
Popping == \E p \in Clients \cup {Invalidator} : RemoveLru(p)
Removal == (\E k \in Keys : Invalidate(k)) \/ Popping

\* the Cache in front of the pool: get_audio and invalidate by track
Facade ==
  \/ \E c \in Clients, t \in Tracks :
       \E r \in Ranges(do_hash(AudioName(t))) : get_audio(c, t, r)
  \/ \E t \in Tracks : invalidate(t)

\* the operations passed to the inner provider
Passing ==
  \/ \E o \in Ops : Forward(o)
  \/ \E a \in Outcomes : Answer(a)

\* the failures of the upstream, of File::create and of the copy
Failure ==
  \/ \E c \in Clients : OnMissErr(c)
  \/ \E c \in Clients : CreateErr(c)
  \/ \E i \in Serials : CopierFail(i)

\* a bounded range's skip and the copier's size correction
Skipping == \E c \in Clients : Skip(c)
Resizing == \E i \in Serials : CopierSize(i)

\* ----------------------------------------------------------- specifications
\* Two keys, two fetches (FULL, the first byte or the tail of key 1) and an
\* invalidation of key 1, in a pool that is full with one byte.
Init == Start(1, Bounds(Keys, {1}, MaxFetches - 1, MaxRemoves, 0, FALSE, TRUE))
Next == Serve \/ Evict \/ Removal \/ Skipping
Spec == Init /\ [][Next]_vars

\* One key fetched MaxFetches times and invalidated, in an unlimited pool.
InitOneKey == Start(0, Bounds({1}, {1}, MaxFetches, MaxRemoves, 0, FALSE, FALSE))
NextOneKey == Serve \/ Removal
SpecOneKey == InitOneKey /\ [][NextOneKey]_vars

\* Two keys and MaxFetches fetches in a pool that is full with one byte.
InitLru == Start(1, Bounds(Keys, {}, MaxFetches, 0, 0, FALSE, FALSE))
NextLru == Serve \/ Evict
SpecLru == InitLru /\ [][NextLru]_vars

\* Two keys, two fetches and a failure, in an unlimited pool; the provider
\* may declare a wrong size.
InitFault == Start(0, Bounds(Keys, {}, MaxFetches - 1, 0, MaxFaults, TRUE, FALSE))
NextFault == Serve \/ Failure \/ Resizing
SpecFault == InitFault /\ [][NextFault]_vars

\* One key fetched twice and invalidated, in an unlimited pool, under the
\* scheduling of the runtime: a fetch that was called is run to its return
\* (Running), a spawned copier is run to its end, remove() runs to its end,
\* and a client that holds a reader keeps polling it.  Calling fetch or
\* invalidate and dropping a reader are the clients' choices.
RunningMiss(c) ==
  \/ MissPut(c) \/ OnMissOk(c) \/ SpaceCheck(c) \/ Insert(c) \/ Release(c)
  \/ \E s \in DeclaredSizes(task[c].key) : CreateOk(c, s)
Running(c) ==
  \/ MissPut(c) \/ OnMissOk(c) \/ SpaceCheck(c) \/ Insert(c) \/ Release(c)
  \/ \E s \in DeclaredSizes(task[c].key) : CreateOk(c, s)
  \/ ContainsKey(c) \/ Barrier(c) \/ Lock(c) \/ Touch(c) \/ Get(c) \/ Open(c)
Scheduling ==
  /\ \A c \in Clients : WF_vars(Running(c)) /\ WF_vars(Read(c))
  /\ \A i \in Serials : WF_vars(CopierWrite(i)) /\ WF_vars(CopierCached(i))
  /\ WF_vars(RemoveLru(Invalidator))
InitStream == Start(0, Bounds({1}, {1}, MaxFetches - 1, MaxRemoves, 0, FALSE, FALSE))
NextStream == Serve \/ Removal
SpecStream == InitStream /\ [][NextStream]_vars /\ Scheduling

\* Two keys, two fetches and an invalidation of key 1, in a pool built with
\* max_size 0 or with max_size 1.
InitPools ==
  \E m \in {0, 1} :
    Start(m, Bounds(Keys, {1}, MaxFetches - 1, MaxRemoves, 0, FALSE, FALSE))
NextPools == Serve \/ Evict \/ Removal
SpecPools == InitPools /\ [][NextPools]_vars

\* One key fetched twice in an unlimited pool, and MaxPasses calls of the
\* operations Cache passes on.
InitPass == Start(0, Bounds({1}, {}, MaxFetches - 1, 0, 0, FALSE, FALSE))
NextPass == Serve \/ Passing
SpecPass == InitPass /\ [][NextPass]_vars

\* Two tracks, two get_audio calls (any range) and an invalidate, through
\* the Cache, in an unlimited pool.
InitCache == Start(0, Bounds(Keys, Keys, MaxFetches - 1, MaxRemoves, 0, FALSE, TRUE))
NextCache == Facade \/ Steps \/ Copies \/ Polls \/ Popping \/ Skipping
SpecCache == InitCache /\ [][NextCache]_vars

\* The pool of Spec under the scheduling of the runtime; the statements of
\* a fetch's eviction branch and of its skip are run like its others.
Evicting(c) == PopLru(c) \/ EvictCache(c) \/ RemoveLru(c)
InitSched == Start(1, Bounds(Keys, {1}, MaxFetches - 1, MaxRemoves, 0, FALSE, FALSE))
NextSched == Serve \/ Evict \/ Removal
SpecSched ==
  /\ InitSched /\ [][NextSched]_vars
  /\ Scheduling
  /\ \A c \in Clients : WF_vars(Evicting(c))

\* ------------------------------------------------------------------ claims
\* C1: single-flight.  For every key, at most one upstream miss future is in
\* flight at any moment, however the concurrent fetch calls interleave.
SingleFlight ==
  \A k \in Keys :
    Cardinality({c \in Clients : task[c].pc = "on_miss" /\ task[c].key = k}) <= 1

\* C2: complete stream.  A fetch called with range {0, None} for a key whose
\* item's copier has finished returns a reader (no Err, no panic) that yields
\* the upstream bytes of the item in order, all S of them before EOF.
CompleteStream ==
  \A c \in Clients :
    task[c].whole # 0 =>
      /\ task[c].pc \notin {"unopened", "panicked"}
      /\ task[c].pc \in Streaming =>
           LET want == Data(task[c].key)
           IN /\ Len(task[c].out) <= Len(want)
              /\ task[c].out = SubSeq(want, 1, Len(task[c].out))
              /\ task[c].pc = "eof" => task[c].out = want

\* C3: range correctness.  The reader fetch returns for a range {s, e} yields
\* upstream bytes [s, e) of its item in order, e - s of them before EOF,
\* whether the item was complete or still downloaded when fetch was called.
RangeCorrect ==
  \A c \in Clients :
    (task[c].range.end # NoEnd /\ task[c].pc \in Streaming) =>
      LET want == SubSeq(Data(task[c].key),
                         task[c].range.start + 1, task[c].range.end)
      IN /\ Len(task[c].out) <= Len(want)
         /\ task[c].out = SubSeq(want, 1, Len(task[c].out))
         /\ task[c].pc = "eof" => task[c].out = want

\* C4: file cleanup.  Once an item that remove() took out (invalidation or
\* eviction) has lost its last reader and its copier has ended, and the key
\* has no other item, no file of the key is left in the cache root; also when
\* the copier finished with Ok after the removal.
FileCleanup ==
  \A k \in Keys :
    ( /\ \E i \in Serials : /\ items[i].st = "dropped" /\ items[i].key = k
                            /\ items[i].removed
      /\ \A j \in Serials : items[j].key = k => items[j].st = "dropped" )
    => dir[k] = 0

\* C5: capacity bound.  In the state right after a miss's fetch returns, the
\* sizes of the registered items sum to at most max_size plus the size of the
\* item that fetch admitted.
CapacityBound ==
  [][\A c \in Clients :
       ( /\ task[c].pc \in {"open", "skip"} /\ task'[c].pc \in Streaming
         /\ task[c].path = "miss" )
       => SumSizes(cache', items', Keys) - items'[task[c].f].size <= PoolMax]_vars

\* C6: eviction trigger.  A miss whose insert made the sizes exceed max_size
\* while another key was registered has, by the time its fetch returns,
\* removed a key other than its own (the least recently used one).
EvictionTrigger ==
  \A c \in Clients :
    (task[c].pc \in Streaming /\ task[c].path = "miss" /\ task[c].admitOver) =>
      /\ task[c].victim # 0
      /\ task[c].victim # task[c].key
      /\ task[c].victimLru

\* C7: LRU discipline.  The order of last_used is the order of the keys' last
\* touches (every miss's put, every hit's get), and the victim of every
\* eviction was touched strictly before every other key of last_used.
LruDiscipline ==
  /\ [i \in 1..Len(last_used) |-> last_used[i].k] = touched
  /\ \A c \in Clients : task[c].victim # 0 => task[c].victimLru

\* C7's case: a miss evicts its own key, which it put after the other key
\* was put: an earlier call's hit has touched the other key since.
LruDisciplineCase ==
  \E c, d \in Clients :
    /\ task[c].pc = "rm_cache"
    /\ task[c].victim = task[c].key
    /\ task[c].victimLru
    /\ task[d].path = "hit"
    /\ task[d].f < task[c].f
    /\ task[d].pc \in {"get", "open"} \cup Streaming
    /\ last_used # <<>>
    /\ last_used[1].k = task[d].key

\* C8: miss-path failure cleanup.  When the miss future or File::create
\* fails, fetch returns the Err with the key's mutex released, the key taken
\* out of last_used and no item registered for the call.
MissFailureCleanup ==
  [][\A c \in Clients :
       (task[c].pc \in {"on_miss", "create"} /\ task'[c].pc = "failed") =>
         /\ task[c].f \notin locked'
         /\ ~contains(last_used', task[c].key)
         /\ cache'[task[c].key] # task[c].f]_vars

\* C9: invalidate, then fetch again.  The next fetch of a key called after
\* remove() took the key's item out while its copier ran is a miss (it awaits
\* the upstream again) and its item is not the invalidated one.
InvalidateThenRefetch ==
  \A c \in Clients :
    task[c].after # 0 =>
      /\ task[c].path = "miss"
      /\ task[c].item # task[c].after

\* C10: read-your-write.  A fetch of a key called after a fetch of the key
\* returned Ok, with no invalidation of the key since, takes the hit path,
\* ends with neither Err nor panic, returns that same item, and the upstream
\* was called once for the key in all.
ReadYourWrite ==
  \A c \in Clients :
    task[c].prior # 0 =>
      /\ task[c].path = "hit"
      /\ task[c].pc \notin {"unopened", "panicked"}
      /\ task[c].item \in {0, task[c].prior}
      /\ used.remove = 0 => upstream[task[c].key] = 1

\* C11: prefix safety.  At every moment the bytes a reader has delivered are
\* the upstream bytes of its key from the range's start offset on, in order:
\* never a byte the copier has not written, whatever copier writes, reads,
\* invalidations and fetches of the same key come in between.
PrefixSafety ==
  \A c \in Clients :
    task[c].pc \in Streaming =>
      LET s == task[c].range.start
          n == Len(task[c].out)
      IN /\ s + n <= DataLen(task[c].key)
         /\ task[c].out = SubSeq(Data(task[c].key), s + 1, s + n)

\* C12: reader termination.  A reader of an item whose copier has finished
\* with Ok, polled again and again, signals EOF in the end (or is dropped by
\* its client), and a reader of the whole stream that signals EOF has read
\* exactly size() bytes of the file.
ReaderTermination ==
  /\ [](\A c \in Clients :
          (task[c].pc = "eof" /\ task[c].range = FULL) =>
             task[c].filled = items[task[c].item].size)
  /\ \A c \in Clients : \A i \in Serials :
       (task[c].pc = "reading" /\ task[c].item = i /\ copier[i].st = "done")
          ~> (task[c].pc # "reading")

\* C13: destruction contract.  At the step that releases the last Arc of an
\* item, the file at the item's path is removed if cached() is false then and
\* is left as it is if cached() is true; a remove_file that finds no file
\* changes nothing and stops nobody.
DestructionContract ==
  [][\A i \in Serials :
       (items[i].st # "dropped" /\ items'[i].st = "dropped") =>
         IF items'[i].cached
         THEN dir'[items'[i].key] = dir[items'[i].key]
         ELSE dir'[items'[i].key] = 0]_vars

\* C13's cases: both branches of Drop have run for items of one key, one
\* item dropped while cached() was true and one that remove() had set to not
\* cached, and no file of the key is left.
DestructionCase ==
  \E i, j \in Serials :
    /\ items[i].st = "dropped" /\ items[i].cached /\ ~items[i].removed
    /\ items[j].st = "dropped" /\ ~items[j].cached /\ items[j].removed
    /\ items[i].key = items[j].key
    /\ dir[items[i].key] = 0

\* C14: copier failure.  When the copy fails midway, the step changes no
\* fetch call (the one that spawned the copier gets no Err from it) and the
\* item is not cached, then and ever after; a reader of the item never gets
\* EOF from the file's end (only a bounded range's take can end it); and the
\* step that releases the item's last Arc removes the file at its path.
CopierFailure ==
  /\ [][\A i \in Serials :
          (copier[i].st = "copying" /\ copier'[i].st = "failed") =>
             task' = task /\ ~items'[i].cached]_vars
  /\ [](\A i \in Serials : copier[i].st = "failed" => ~items[i].cached)
  /\ [](\A c \in Clients :
          (task[c].item # 0 /\ copier[task[c].item].st = "failed"
             /\ task[c].pc = "eof") =>
            /\ task[c].range.end # NoEnd
            /\ Len(task[c].out) = RangeLength(task[c].range))
  /\ [][\A i \in Serials :
          (copier'[i].st = "failed" /\ items[i].st # "dropped"
             /\ items'[i].st = "dropped") => dir'[items'[i].key] = 0]_vars

\* C14's case: the copy of a two-byte stream failed after its first byte and
\* a reader of the item, returned by fetch, has read that byte and waits at
\* the file's end.
CopierFailureCase ==
  \E c \in Clients :
    /\ task[c].pc = "reading"
    /\ task[c].item = task[c].f
    /\ copier[task[c].item].st = "failed"
    /\ task[c].filled = 1
    /\ content[task[c].ino] = <<1>>
    /\ DataLen(task[c].key) = 2

\* C15: remove of an unknown key.  Each of the two statements of remove(key)
\* (182, 183), run while the key is in neither the DashMap nor last_used,
\* leaves the DashMap, last_used, every item (its cached flag too) and every
\* file as they were; remove has no failing path.
RemoveUnknown ==
  [][\A k \in Keys :
       ( /\ \/ inval.pc = "idle" /\ inval'.pc = "rm_lru" /\ inval'.key = k
            \/ inval.pc = "rm_lru" /\ inval'.pc = "idle" /\ inval.key = k
         /\ cache[k] = 0
         /\ ~contains(last_used, k) )
       => /\ cache' = cache
          /\ last_used' = last_used
          /\ items' = items
          /\ dir' = dir
          /\ content' = content]_vars

\* C15's case: remove(1) has returned, key 1 was never put in last_used, and
\* key 2 is registered with its file.
RemoveUnknownCase ==
  /\ used.remove = 1
  /\ inval.pc = "idle"
  /\ upstream[1] = 0
  /\ cache[2] # 0
  /\ contains(last_used, 2)
  /\ dir[2] # 0

\* C16: no eviction in an unlimited pool.  In a pool built with max_size 0 no
\* fetch enters the eviction branch, and a key leaves the DashMap or last_used
\* only at a statement of remove() called by invalidate for that key.
NeverEvicts ==
  /\ [](max_size = 0 =>
          \A c \in Clients :
            /\ task[c].victim = 0
            /\ task[c].pc \notin {"pop_lru", "rm_cache", "rm_lru"})
  /\ [][max_size = 0 =>
          \A k \in Keys :
            ( \/ cache[k] # 0 /\ cache'[k] = 0
              \/ contains(last_used, k) /\ ~contains(last_used', k) )
            => \/ inval.pc = "idle" /\ inval'.pc = "rm_lru" /\ inval'.key = k
               \/ inval.pc = "rm_lru" /\ inval'.pc = "idle" /\ inval.key = k]_vars

\* C16's case: in a pool built with max_size 0, key 1's two bytes are
\* registered and complete, and a later miss of key 2 has been admitted and
\* has returned with key 1 still registered.
NeverEvictsCase ==
  \E c \in Clients :
    /\ max_size = 0
    /\ task[c].pc \in Streaming /\ task[c].path = "miss" /\ task[c].key = 2
    /\ cache[2] = task[c].f
    /\ cache[1] # 0 /\ cache[1] < task[c].f
    /\ items[cache[1]].cached
    /\ contains(last_used, 1)

\* C17: passthrough.  Every call of albums, get_audio_info, get_cover and
\* reload calls the inner provider's operation of that name once, returns
\* the inner provider's answer (value or error) as it is, and leaves the
\* DashMap, last_used and the items as they are.
Passthrough ==
  /\ [](\A o \in Ops : inner.calls[o] = inner.made[o])
  /\ [](inner.pc = "idle" => inner.got = inner.gave)
  /\ [][(inner'.pc # inner.pc \/ inner'.made # inner.made) =>
          /\ cache' = cache
          /\ last_used' = last_used
          /\ items' = items
          /\ \A o \in Ops :
               inner'.made[o] # inner.made[o] => inner'.pc = o]_vars

\* C17's case: reload and albums were called once each, the last call has
\* returned the inner provider's error, and key 1 is registered.
PassthroughCase ==
  /\ inner.pc = "idle"
  /\ inner.made["reload"] = 1
  /\ inner.made["albums"] = 1
  /\ inner.gave = [ok |-> FALSE, v |-> 1]
  /\ inner.got = inner.gave
  /\ cache[1] # 0
  /\ contains(last_used, 1)

\* C18: routing.  get_audio for a track calls fetch under the digest of the
\* track's name whatever range the client asks for, the inner get_audio call
\* it builds as on_miss asks for Range::FULL, and invalidate for the track
\* calls remove under that same key and takes no other key out.
AudioRouting ==
  /\ [](inner.want \in {NoRange, FULL})
  /\ [](\A t \in Tracks :
          (inner.asked[t] # 0 /\ inner.dropped[t] # 0) =>
             inner.dropped[t] = inner.asked[t])
  /\ [][\A t \in Tracks :
          /\ inner'.asked[t] # inner.asked[t] =>
               \E c \in Clients :
                 /\ task[c].pc \in Rest /\ task'[c].pc \in {"put", "contains_key"}
                 /\ task'[c].key = inner'.asked[t]
                 /\ inner'.asked[t] = do_hash(Hashed[t.track])
          /\ inner'.dropped[t] # inner.dropped[t] =>
               /\ inval'.key = inner'.dropped[t]
               /\ \A k \in Keys \ {inner'.dropped[t]} : cache'[k] = cache[k]]_vars

\* C18's case: a track was asked for with a bounded range, its reader was
\* returned, and the track was invalidated: both calls used the same key.
AudioRoutingCase ==
  \E t \in Tracks : \E c \in Clients :
    /\ inner.asked[t] # 0
    /\ inner.dropped[t] = inner.asked[t]
    /\ inner.want = FULL
    /\ task[c].key = inner.asked[t]
    /\ task[c].range.end # NoEnd
    /\ task[c].pc \in Streaming
    /\ inval.pc = "idle"
    /\ cache[task[c].key] = 0

\* C19: in every state the keys of last_used include the keys of the DashMap,
\* also when remove() or an eviction takes out a key whose miss is in flight.
RecencyCoversItems ==
  \A k \in Keys : cache[k] # 0 => contains(last_used, k)

\* C20: in every state, a key of last_used either has an entry in the DashMap
\* or has exactly one fetch on the miss path that holds the guard of the
\* key's mutex and has yet to insert; no key is left with neither.
ReservedOrInserted ==
  \A k \in Keys :
    contains(last_used, k) =>
      \/ cache[k] # 0
      \/ Cardinality({c \in Clients :
                        /\ task[c].key = k
                        /\ task[c].path = "miss"
                        /\ task[c].pc \in {"on_miss", "create", "space", "pop_lru",
                                           "rm_cache", "rm_lru", "insert"}
                        /\ task[c].f \in locked}) = 1

\* C21: the victim a miss pops from last_used is never the key that miss is
\* inserting, whatever keys concurrent fetches touched while it awaited the
\* upstream.
VictimIsOther ==
  \A c \in Clients : task[c].victim # 0 => task[c].victim # task[c].key

\* C22: eviction completes.  A miss that finds space_used() > max_size pops
\* the victim, removes it, drops the write guard of last_used and goes on;
\* the guard, once taken across statements, is released again, so that
\* nobody waits for it forever.
EvictionCompletes ==
  /\ \A c \in Clients :
       (task[c].pc = "pop_lru")
          ~> (task[c].pc \notin {"pop_lru", "rm_cache", "rm_lru"})
  /\ (lockOwner # 0) ~> (lockOwner = 0)

\* C23: deferred hit.  A fetch that found its key in last_used but not in the
\* DashMap goes on only when the inserter's guard of the key's mutex is
\* dropped, makes no upstream call of its own, then finds the inserter's item
\* in the DashMap and returns a reader of that item: it ends with neither a
\* panic nor an Err.
DeferredHit ==
  /\ [](\A c \in Clients :
          task[c].wait # 0 =>
            /\ task[c].path = "hit"
            /\ task[c].pc # "lock" => task[c].wait \notin locked
            /\ task[c].item # 0 => task[c].item = task[c].wait)
  /\ [][\A c \in Clients :
          task[c].wait # 0 => task'[c].pc \notin {"panicked", "unopened"}]_vars

ReaderEofRule ==
  [][\A c \in Clients :
       task[c].pc \in {"skip", "reading"} =>
         LET t == task[c]
             none == Len(content[t.ino]) - t.filled <= 0
             done == items[t.item].cached /\ t.filled = items[t.item].size
             eof == /\ task'[c].pc \in Streaming \ {t.pc}
                    /\ task'[c].filled = t.filled
         IN /\ eof => none /\ done
            /\ none /\ ~done => \/ task'[c].pc = "idle"
                                \/ /\ task'[c].pc = t.pc
                                   /\ task'[c].filled = t.filled
                                   /\ task'[c].out = t.out]_vars
\* The reader of a whole object has signalled EOF: it delivered size() bytes of
\* a cached item.
ReaderEofCase ==
  \E c \in Clients :
    /\ task[c].pc = "eof" /\ task[c].range = FULL
    /\ items[task[c].item].cached
    /\ task[c].filled = items[task[c].item].size
    /\ task[c].filled > 0

\* C26: size correction ordering.  The copier sets size() to the byte count of
\* the copy before it sets cached: the step that sets cached changes no size
\* and is taken with size() equal to the bytes copied, and in every state an
\* item still referenced whose copier has set cached, or that is cached, has
\* the size of the upstream's stream, never the provider's differing
\* declaration.
SizeBeforeCached ==
  /\ [][\A i \in Serials :
          (~items[i].cached /\ items'[i].cached) =>
             /\ items[i].size = copier[i].pos
             /\ items'[i].st = "built" => items'[i].size = items[i].size]_vars
  /\ [](\A i \in Serials :
          (items[i].st = "built" /\ (copier[i].st = "done" \/ items[i].cached))
             => items[i].size = DataLen(items[i].key))
\* The provider declared a size of one byte more than the stream; the copier
\* has corrected size() and not yet set cached, and a reader of the item has
\* read all the bytes and is not at EOF.
SizeBeforeCachedCase ==
  \E c \in Clients :
    /\ task[c].pc = "reading" /\ task[c].item # 0
    /\ copier[task[c].item].st = "sized"
    /\ ~items[task[c].item].cached
    /\ items[task[c].item].size = DataLen(task[c].key)
    /\ task[c].filled = DataLen(task[c].key)

\* C27: one file, one item.  In every state each file in the cache root is
\* the backing file of exactly one CacheItem that is alive: no file is left
\* without an item, and no two items that are alive have the same path.
OneItemPerFile ==
  \A k \in Keys :
    dir[k] # 0 =>
      Cardinality({i \in Serials : items[i].st = "built" /\ items[i].key = k}) = 1

\* C28: cached means complete.  In every state an item that is alive has
\* cached() true only if its copier has finished and the file at its path
\* holds the whole object: size() bytes, the bytes the upstream produced.
CachedIsComplete ==
  \A i \in Serials :
    (items[i].st = "built" /\ items[i].cached) =>
      /\ copier[i].st = "done"
      /\ dir[items[i].key] # 0
      /\ content[dir[items[i].key]] = Data(items[i].key)
      /\ items[i].size = DataLen(items[i].key)

\* C29: no lookup failure.  Whatever the interleaving of fetch, remove and
\* eviction, and after a failed miss, no fetch ends in the panic of an unwrap
\* on a lookup that found nothing (pop_lru at 140, the mutex lookup at 167,
\* the touch at 172, the DashMap lookup at 173): a fetch ends only by
\* returning a reader or an Err.
NoLookupFailure ==
  \A c \in Clients : task[c].pc # "panicked"

\* C30: a stale drop spares the successor.  The step that drops the last Arc
\* of an item that remove() took out (evicted or invalidated) never removes
\* the file at the path of the item the DashMap holds for the same key: a
\* file that was there before the drop is there after it.
StaleDropSparesFile ==
  [][\A i \in Serials :
       (items[i].st = "built" /\ items'[i].st = "dropped" /\ items[i].removed) =>
          LET k == items[i].key
          IN (cache'[k] # 0 /\ dir[k] # 0) => dir'[k] # 0]_vars

\* C31: removal strands no reader.  A reader that holds an item while the
\* item is cached (its download is complete) goes on to signal EOF, or is
\* dropped by its client, whatever remove() does to the item afterwards by
\* invalidation or eviction: it does not wait at the file's end forever.
RemovalStrandsNoReader ==
  \A c \in Clients :
    (task[c].pc = "reading" /\ items[task[c].item].cached)
       ~> (task[c].pc \in {"eof", "idle"})

=============================================================================
